---------------------------- MODULE Spec2Model ----------------------------
(***************************************************************************)
(* Model of the CXA81 serial <-> HTTP bridge (cax81.go).                   *)
(*                                                                         *)
(* Byte strings that the code inspects byte by byte (wire frames, the      *)
(* group / number / data of commands and replies) are sequences of         *)
(* one-character strings.  Strings the code only compares as a whole (the  *)
(* JSON request fields, source names) are TLA+ strings.                    *)
(***************************************************************************)
EXTENDS Naturals, Sequences, FiniteSets

VARIABLES
    state,      \* Amplifier.state: [Power, Mute, Source]
    mu,         \* Amplifier.mu: NoOwner, Listener or the handler holding it
    pcL,        \* position of the Listen goroutine
    matches,    \* replies of the current read not yet applied (readUpdate's loop)
    lres,       \* outcome of the last readUpdate call, "reading" while it runs
    usPre,      \* state at the moment UpdateState acquired the lock
    logged,     \* readUpdate's "Received" log text for the reply in hand
    pcH,        \* position of each HTTP handler goroutine
    method,     \* r.Method of the request each handler serves
    req,        \* the decoded request body of each handler
    cmd,        \* the Command each handler has passed to SendCommand
    sent,       \* port.Write calls made for the handler's current request
    errs,       \* fields for which ServeHTTP called http.Error
    resp,       \* what ServeHTTP wrote as the response
    st0,        \* state at the moment the handler acquired the lock
    toggles,    \* the last power "toggle" dispatches, until powered is set otherwise
    waited,     \* the GET stood at the lock while a power-off reply was half applied
    frames,     \* codec: the frames the device put on the wire for this read
    noisy,      \* codec: bytes outside whole frames were put on the wire too
    sentCmd,    \* codec: the command whose SendCommand bytes are on the wire
    response,   \* codec: the buffer readUpdate got from port.Read
    replies,    \* codec: the replies readUpdate built from the buffer
    cpc,        \* codec: position ("build", "decoded")
    wire,       \* serial line: bytes the device has sent and no read has taken
    wframes,    \* serial line: the frames those bytes belong to, in order
    taken       \* serial line: bytes of the first of them that a read has taken

vars == << state, mu, pcL, matches, lres, usPre, logged, pcH, method, req, cmd, sent,
           errs, resp, st0, toggles, waited, frames, noisy, sentCmd, response,
           replies, cpc, wire, wframes, taken >>

sysVars == << state, mu, pcL, matches, lres, usPre, logged, pcH, method, req,
              cmd, sent, errs, resp, st0, toggles, waited >>

listenVars == << pcL, matches, lres, usPre, logged >>

httpVars == << pcH, method, req, cmd, sent, errs, resp, st0 >>

wireVars == << wire, wframes, taken >>

codecVars == << frames, noisy, sentCmd, response, replies, cpc, wireVars >>

-----------------------------------------------------------------------------
(* Bounds *)

NumHandlers == 2     \* concurrent HTTP handler goroutines
MaxFrames == 2       \* frames the device puts into one read
MaxSysFrames == 1    \* the same, in the specification of the whole bridge
MaxNoise == 1        \* chunks of non-frame bytes in one read (codec)
MaxWire == 2         \* frames on the serial line that no read has wholly taken

Handlers == 1 .. NumHandlers

-----------------------------------------------------------------------------
(* Commands, sources *)

CR == "\r"

Digits == {"0", "1", "2", "3", "4", "5", "6", "7", "8", "9"}

Command(g, n, d) == [Group |-> g, Number |-> n, Data |-> d]

GetPowerState == Command(<<"0", "1">>, <<"0", "1">>, <<>>)
SetPowerStandby == Command(<<"0", "1">>, <<"0", "2">>, <<"0">>)
SetPowerOn == Command(<<"0", "1">>, <<"0", "2">>, <<"1">>)
GetMuteState == Command(<<"0", "1">>, <<"0", "3">>, <<>>)
SetMuteOff == Command(<<"0", "1">>, <<"0", "4">>, <<"0">>)
SetMuteOn == Command(<<"0", "1">>, <<"0", "4">>, <<"1">>)

GetSource == Command(<<"0", "3">>, <<"0", "1">>, <<>>)
GetNextSource == Command(<<"0", "3">>, <<"0", "2">>, <<>>)
GetPreviousSource == Command(<<"0", "3">>, <<"0", "3">>, <<>>)
SetSourceA1 == Command(<<"0", "3">>, <<"0", "4">>, <<"0", "0">>)
SetSourceA2 == Command(<<"0", "3">>, <<"0", "4">>, <<"0", "1">>)
SetSourceA3 == Command(<<"0", "3">>, <<"0", "4">>, <<"0", "2">>)
SetSourceA4 == Command(<<"0", "3">>, <<"0", "4">>, <<"0", "3">>)
SetSourceD1 == Command(<<"0", "3">>, <<"0", "4">>, <<"0", "4">>)
SetSourceD2 == Command(<<"0", "3">>, <<"0", "4">>, <<"0", "5">>)
SetSourceD3 == Command(<<"0", "3">>, <<"0", "4">>, <<"0", "6">>)
SetSourceMP3 == Command(<<"0", "3">>, <<"0", "4">>, <<"1", "0">>)
SetSourceBluetooth == Command(<<"0", "3">>, <<"0", "4">>, <<"1", "4">>)
SetSourceUSBAudio == Command(<<"0", "3">>, <<"0", "4">>, <<"1", "6">>)
SetSourceA1Balanced == Command(<<"0", "3">>, <<"0", "4">>, <<"2", "0">>)

GetProtocolVersion == Command(<<"1", "3">>, <<"0", "1">>, <<>>)
GetFirmwareVersion == Command(<<"1", "3">>, <<"0", "2">>, <<>>)

Commands ==
    { GetPowerState, SetPowerStandby, SetPowerOn, GetMuteState, SetMuteOff,
      SetMuteOn, GetSource, GetNextSource, GetPreviousSource, SetSourceA1,
      SetSourceA2, SetSourceA3, SetSourceA4, SetSourceD1, SetSourceD2,
      SetSourceD3, SetSourceMP3, SetSourceBluetooth, SetSourceUSBAudio,
      SetSourceA1Balanced, GetProtocolVersion, GetFirmwareVersion }

\* The sources map; a Go map lookup of a missing key gives "".
sourcesNoBluetooth(code) ==
    CASE code = <<"0", "0">> -> "A1"
      [] code = <<"0", "1">> -> "A2"
      [] code = <<"0", "2">> -> "A3"
      [] code = <<"0", "3">> -> "A4"
      [] code = <<"0", "4">> -> "D1"
      [] code = <<"0", "5">> -> "D2"
      [] code = <<"0", "6">> -> "D3"
      [] code = <<"1", "0">> -> "MP3"
      [] code = <<"1", "6">> -> "USB"
      [] code = <<"2", "0">> -> "A1 Balanced"
      [] OTHER -> ""

sources(code) ==
    CASE code = <<"0", "0">> -> "A1"
      [] code = <<"0", "1">> -> "A2"
      [] code = <<"0", "2">> -> "A3"
      [] code = <<"0", "3">> -> "A4"
      [] code = <<"0", "4">> -> "D1"
      [] code = <<"0", "5">> -> "D2"
      [] code = <<"0", "6">> -> "D3"
      [] code = <<"1", "0">> -> "MP3"
      [] code = <<"1", "4">> -> "Bluetooth"
      [] code = <<"1", "6">> -> "USB"
      [] code = <<"2", "0">> -> "A1 Balanced"
      [] OTHER -> ""

SourceNames ==
    { "A1", "A2", "A3", "A4", "D1", "D2", "D3", "MP3", "Bluetooth", "USB",
      "A1 Balanced" }

Reply(g, n, d) == [Group |-> g, Number |-> n, Data |-> d]

-----------------------------------------------------------------------------
(* Protocol codec *)

\* SendCommand's formatting of a command into the bytes it writes.
SendCommandBytesNoCR(c) ==
    <<"#">> \o c.Group \o <<",">> \o c.Number \o
        (IF c.Data # <<>> THEN <<",">> \o c.Data ELSE <<>>)

SendCommandBytes(c) ==
    <<"#">> \o c.Group \o <<",">> \o c.Number \o
        (IF c.Data # <<>> THEN <<",">> \o c.Data \o <<CR>> ELSE <<CR>>)

\* Index of the first carriage return of s at or after i, 0 when there is none.
RECURSIVE NextCR(_, _)
NextCR(s, i) ==
    IF i > Len(s) THEN 0
    ELSE IF s[i] = CR THEN i
    ELSE NextCR(s, i + 1)

NoMatch == [ok |-> FALSE, end |-> 0, m |-> << >>]

\* validReply anchored at index i of s:  #(\d\d),(\d\d)(?:,([^\r]*))?\r
\* m is the submatch list without the whole match: <<m[1], m[2], m[3]>>.
validReplyAt(s, i) ==
    IF /\ i + 6 <= Len(s)
       /\ s[i] = "#"
       /\ s[i + 1] \in Digits /\ s[i + 2] \in Digits
       /\ s[i + 3] = ","
       /\ s[i + 4] \in Digits /\ s[i + 5] \in Digits
    THEN LET g == SubSeq(s, i + 1, i + 2)
             n == SubSeq(s, i + 4, i + 5)
             j == NextCR(s, i + 7)
         IN  IF s[i + 6] = "," /\ j # 0
             THEN [ok |-> TRUE, end |-> j + 1,
                   m |-> << g, n, SubSeq(s, i + 7, j - 1) >>]
             ELSE IF s[i + 6] = CR
             THEN [ok |-> TRUE, end |-> i + 7, m |-> << g, n, << >> >>]
             ELSE NoMatch
    ELSE NoMatch

\* validReply.FindAllStringSubmatch(s, -1): the leftmost non-overlapping
\* matches, scanning from index i.
RECURSIVE FindAllFrom(_, _)
FindAllFrom(s, i) ==
    IF i > Len(s) THEN << >>
    ELSE LET r == validReplyAt(s, i)
         IN  IF r.ok THEN << r.m >> \o FindAllFrom(s, r.end)
             ELSE FindAllFrom(s, i + 1)

FindAllStringSubmatch(s) == FindAllFrom(s, 1)

\* The Reply readUpdate builds from one match.
ReplyOfMatch(m) == Reply(m[1], m[2], m[3])

\* readUpdate's decoding of a buffer: the replies it will apply, in order.
RepliesOfFirstOnly(s) ==
    LET ms == FindAllStringSubmatch(s)
    IN  IF ms = << >> THEN << >> ELSE << ReplyOfMatch(ms[1]) >>

RepliesOf(s) ==
    LET ms == FindAllStringSubmatch(s)
    IN  [k \in 1 .. Len(ms) |-> ReplyOfMatch(ms[k])]

-----------------------------------------------------------------------------
(* Device state store *)

\* Who holds a.mu: nobody, the Listen goroutine, or handler h.
\* string(bytes): the text of a byte sequence.
RECURSIVE Str(_)
Str(q) == IF q = << >> THEN "" ELSE Head(q) \o Str(Tail(q))

\* Reply.String: the description chosen by its switch.
ReplyDescription(r) ==
    LET g == Str(r.Group)
        n == Str(r.Number)
    IN  CASE g = "00" /\ n = "01" -> "Command group unknown"
          [] g = "00" /\ n = "02" -> "Command number unknown"
          [] g = "00" /\ n = "03" -> "Command data error"
          [] g = "00" /\ n = "04" -> "Command not available"
          [] g = "02" /\ n = "01" -> "Current power state"
          [] g = "02" /\ n = "03" -> "Current mute state"
          [] g = "04" /\ n = "01" -> "Current source"
          [] g = "14" /\ n = "01" -> "Protocol Version"
          [] g = "14" /\ n = "02" -> "Get Firmware Version"
          [] OTHER -> "Unknown reply: " \o g \o "," \o n \o "," \o Str(r.Data)

\* Reply.String: the local data is resolved through sources for 04/01, but
\* the text returned is built from r.Data.
ReplyString(r) ==
    IF r.Data # << >>
    THEN ReplyDescription(r) \o ": " \o Str(r.Data)
    ELSE ReplyDescription(r)

NoOwner == <<"none", "">>

Listener == <<"listen", "">>

Handler(h) == <<"handler", h>>

ZeroState == [Power |-> FALSE, Mute |-> FALSE, Source |-> ""]

AllStates == [Power : BOOLEAN, Mute : BOOLEAN, Source : SourceNames \cup {""}]

\* UpdateState takes a.mu before it touches the state.
UpdateStateNoLock == FALSE

UpdateStateLocks == TRUE

\* r.Data == "1"
DataIsOneNotZero(d) == d # <<"0">>

DataIsOne(d) == d = <<"1">>

\* The first assignment of UpdateState's switch, by (Group, Number).
UpdateStateSwitchMuteAsPower(s, r) ==
    IF r.Group = <<"0", "2">> /\ r.Number \in {<<"0", "1">>, <<"0", "3">>}
    THEN [s EXCEPT !.Power = DataIsOne(r.Data)]
    ELSE IF r.Group = <<"0", "4">> /\ r.Number = <<"0", "1">>
    THEN [s EXCEPT !.Source = sources(r.Data)]
    ELSE s

UpdateStateSwitch(s, r) ==
    IF r.Group = <<"0", "2">> /\ r.Number = <<"0", "1">>
    THEN [s EXCEPT !.Power = DataIsOne(r.Data)]
    ELSE IF r.Group = <<"0", "2">> /\ r.Number = <<"0", "3">>
    THEN [s EXCEPT !.Mute = DataIsOne(r.Data)]
    ELSE IF r.Group = <<"0", "4">> /\ r.Number = <<"0", "1">>
    THEN [s EXCEPT !.Source = sources(r.Data)]
    ELSE s

IsPowerReply(r) == r.Group = <<"0", "2">> /\ r.Number = <<"0", "1">>

-----------------------------------------------------------------------------
(* Ingestion loop: Listen -> readUpdate -> UpdateState *)

\* Listen's reaction to an error of readUpdate: log and continue.
ListenOnErrorStop == "stopped"

ListenOnError == "read"

\* port.Read fails: readUpdate returns the error.
L_ReadError ==
    /\ pcL = "read"
    /\ lres' = "readerr"
    /\ pcL' = ListenOnError
    /\ UNCHANGED << state, mu, matches, usPre, logged, toggles, waited >>
    /\ UNCHANGED << httpVars, codecVars >>

\* port.Read returns one of the buffers of B; readUpdate decodes it and
\* logs the first reply.
L_Read(B) ==
    /\ pcL = "read"
    /\ \E b \in B :
          LET rs == RepliesOf(b)
          IN  IF rs = << >>
              THEN /\ lres' = "malformed"
                   /\ pcL' = ListenOnError
                   /\ matches' = << >>
                   /\ logged' = ""
              ELSE /\ lres' = "reading"
                   /\ pcL' = "update"
                   /\ matches' = rs
                   /\ logged' = ReplyString(Head(rs))
    /\ UNCHANGED << state, mu, usPre, toggles, waited >>
    /\ UNCHANGED << httpVars, codecVars >>

\* UpdateState: a.mu.Lock()
L_UpdateLock ==
    /\ pcL = "update"
    /\ UpdateStateLocks => mu = NoOwner
    /\ mu' = IF UpdateStateLocks THEN Listener ELSE mu
    /\ usPre' = state
    /\ pcL' = "us_switch"
    /\ UNCHANGED << state, matches, lres, logged, toggles, waited >>
    /\ UNCHANGED << httpVars, codecVars >>

\* UpdateState: the switch and the assignment of the case taken.
L_UpdateSwitch ==
    /\ pcL = "us_switch"
    /\ LET r == Head(matches)
       IN  /\ state' = UpdateStateSwitch(state, r)
           /\ pcL' = IF IsPowerReply(r) /\ ~state'.Power
                     THEN "us_mute" ELSE "us_ret"
           /\ toggles' = IF IsPowerReply(r) THEN << >> ELSE toggles
           /\ waited' = [h \in Handlers |->
                            \/ waited[h]
                            \/ /\ pcH[h] = "lock" /\ method[h] = "GET"
                               /\ IsPowerReply(r)
                               /\ state.Power /\ state.Mute /\ ~state'.Power]
    /\ UNCHANGED << mu, matches, lres, usPre, logged >>
    /\ UNCHANGED << httpVars, codecVars >>

\* UpdateState: a.state.Mute = false
L_ResetMute ==
    /\ pcL = "us_mute"
    /\ state' = [state EXCEPT !.Mute = FALSE]
    /\ pcL' = "us_source"
    /\ UNCHANGED << mu, matches, lres, usPre, logged, toggles, waited >>
    /\ UNCHANGED << httpVars, codecVars >>

\* UpdateState: a.state.Source = ""
L_ResetSource ==
    /\ pcL = "us_source"
    /\ state' = [state EXCEPT !.Source = ""]
    /\ pcL' = "us_ret"
    /\ UNCHANGED << mu, matches, lres, usPre, logged, toggles, waited >>
    /\ UNCHANGED << httpVars, codecVars >>

L_UpdateUnlockDropRest ==
    /\ pcL = "us_ret"
    /\ mu' = IF mu = Listener THEN NoOwner ELSE mu
    /\ matches' = << >>
    /\ usPre' = ZeroState
    /\ logged' = ""
    /\ pcL' = "read"
    /\ lres' = "ok"
    /\ UNCHANGED << state, toggles, waited >>
    /\ UNCHANGED << httpVars, codecVars >>

\* UpdateState returns (deferred a.mu.Unlock()); readUpdate's loop goes on
\* to the next match, which it logs, or returns nil to Listen.
L_UpdateUnlock ==
    /\ pcL = "us_ret"
    /\ mu' = IF mu = Listener THEN NoOwner ELSE mu
    /\ matches' = Tail(matches)
    /\ usPre' = ZeroState
    /\ logged' = IF Tail(matches) = << >> THEN ""
                 ELSE ReplyString(Head(Tail(matches)))
    /\ pcL' = IF Tail(matches) = << >> THEN "read" ELSE "update"
    /\ lres' = IF Tail(matches) = << >> THEN "ok" ELSE lres
    /\ UNCHANGED << state, toggles, waited >>
    /\ UNCHANGED << httpVars, codecVars >>

InUpdate == {"us_switch", "us_mute", "us_source", "us_ret"}

-----------------------------------------------------------------------------
(* Command dispatcher: handlePower, handleMute, handleSource.               *)
(* Each gives what the handler does before its return statement:            *)
(* act = "send" (return a.SendCommand(c)), "nil" (return nil) or "err"      *)
(* (return fmt.Errorf(...)), with the command c and the state st it leaves. *)

NoCommand == Command(<< >>, << >>, << >>)

Send(c, st) == [act |-> "send", c |-> c, st |-> st]

ReturnNil(st) == [act |-> "nil", c |-> NoCommand, st |-> st]

ReturnError(st) == [act |-> "err", c |-> NoCommand, st |-> st]

handlePowerStateless(s, st) ==
    CASE s = "on" -> Send(SetPowerOn, st)
      [] s = "off" -> Send(SetPowerStandby, st)
      [] s = "toggle" ->
            IF st.Power THEN Send(SetPowerStandby, st) ELSE Send(SetPowerOn, st)
      [] s = "" -> ReturnNil(st)
      [] OTHER -> ReturnError(st)

handlePowerNoEmpty(s, st) ==
    CASE s = "on" -> Send(SetPowerOn, [st EXCEPT !.Power = TRUE])
      [] s = "off" -> Send(SetPowerStandby, [st EXCEPT !.Power = FALSE])
      [] s = "toggle" ->
            IF st.Power
            THEN Send(SetPowerStandby, [st EXCEPT !.Power = FALSE])
            ELSE Send(SetPowerOn, [st EXCEPT !.Power = TRUE])
      [] OTHER -> ReturnError(st)

handlePower(s, st) ==
    CASE s = "on" -> Send(SetPowerOn, [st EXCEPT !.Power = TRUE])
      [] s = "off" -> Send(SetPowerStandby, [st EXCEPT !.Power = FALSE])
      [] s = "toggle" ->
            IF st.Power
            THEN Send(SetPowerStandby, [st EXCEPT !.Power = FALSE])
            ELSE Send(SetPowerOn, [st EXCEPT !.Power = TRUE])
      [] s = "" -> ReturnNil(st)
      [] OTHER -> ReturnError(st)

handleMuteUngated(s, st) ==
    CASE s \in {"on", "muted"} -> Send(SetMuteOn, [st EXCEPT !.Mute = TRUE])
      [] s \in {"off", "unmuted"} -> Send(SetMuteOff, [st EXCEPT !.Mute = FALSE])
      [] s = "" -> ReturnNil(st)
      [] OTHER -> ReturnError(st)

handleMuteNoAlias(s, st) ==
    IF ~st.Power THEN ReturnNil(st)
    ELSE CASE s = "on" -> Send(SetMuteOn, [st EXCEPT !.Mute = TRUE])
           [] s = "off" -> Send(SetMuteOff, [st EXCEPT !.Mute = FALSE])
           [] s = "" -> ReturnNil(st)
           [] OTHER -> ReturnError(st)

handleMute(s, st) ==
    IF ~st.Power THEN ReturnNil(st)
    ELSE CASE s \in {"on", "muted"} -> Send(SetMuteOn, [st EXCEPT !.Mute = TRUE])
           [] s \in {"off", "unmuted"} -> Send(SetMuteOff, [st EXCEPT !.Mute = FALSE])
           [] s = "" -> ReturnNil(st)
           [] OTHER -> ReturnError(st)

\* The command and source name of each case of handleSource's switch.
SourceCommand(s) ==
    CASE s = "A1" -> SetSourceA1
      [] s = "A2" -> SetSourceA2
      [] s = "A3" -> SetSourceA3
      [] s = "A4" -> SetSourceA4
      [] s = "D1" -> SetSourceD1
      [] s = "D2" -> SetSourceD2
      [] s = "D3" -> SetSourceD3
      [] s = "MP3" -> SetSourceMP3
      [] s = "Bluetooth" -> SetSourceBluetooth
      [] s = "USB" -> SetSourceUSBAudio
      [] s = "A1 Balanced" -> SetSourceA1Balanced

handleSourceUngated(s, st) ==
    CASE s \in SourceNames -> Send(SourceCommand(s), [st EXCEPT !.Source = s])
      [] s = "" -> ReturnNil(st)
      [] OTHER -> ReturnError(st)

handleSource(s, st) ==
    IF ~st.Power THEN ReturnNil(st)
    ELSE CASE s \in SourceNames -> Send(SourceCommand(s), [st EXCEPT !.Source = s])
           [] s = "" -> ReturnNil(st)
           [] OTHER -> ReturnError(st)

-----------------------------------------------------------------------------
(* HTTP handler goroutines: ServeHTTP *)

NoRequest == [Power |-> "", Mute |-> "", Source |-> ""]

NoResponse == [code |-> 0, body |-> "none"]

\* Statuses of the response: http.Error sets the status on its first call,
\* the encoder's implicit header is 200.
Status(e) == IF e = << >> THEN 200 ELSE 500

\* The last two entries of a sequence.
LastTwo(q) == IF Len(q) > 2 THEN SubSeq(q, Len(q) - 1, Len(q)) ELSE q

\* A request arrives: net/http starts ServeHTTP in a goroutine.
H_Request(h) ==
    /\ pcH[h] = "idle"
    /\ \E m \in {"GET", "POST"} : method' = [method EXCEPT ![h] = m]
    /\ pcH' = [pcH EXCEPT ![h] = "lock"]
    /\ UNCHANGED << state, mu, listenVars, req, cmd, sent, errs, resp, st0,
                    toggles, waited >>
    /\ UNCHANGED codecVars

H_LockNotTaken(h) ==
    /\ pcH[h] = "lock"
    /\ mu' = mu
    /\ st0' = [st0 EXCEPT ![h] = state]
    /\ pcH' = [pcH EXCEPT ![h] = IF method[h] = "POST" THEN "decode" ELSE "encode"]
    /\ UNCHANGED << state, listenVars, method, req, cmd, sent, errs, resp,
                    toggles, waited >>
    /\ UNCHANGED codecVars

\* ServeHTTP: a.mu.Lock(), the unlock deferred to the return.
H_Lock(h) ==
    /\ pcH[h] = "lock"
    /\ mu = NoOwner
    /\ mu' = Handler(h)
    /\ st0' = [st0 EXCEPT ![h] = state]
    /\ pcH' = [pcH EXCEPT ![h] = IF method[h] = "POST" THEN "decode" ELSE "encode"]
    /\ UNCHANGED << state, listenVars, method, req, cmd, sent, errs, resp,
                    toggles, waited >>
    /\ UNCHANGED codecVars

\* ServeHTTP: the body does not decode: 400 and return.
H_DecodeError(h) ==
    /\ pcH[h] = "decode"
    /\ resp' = [resp EXCEPT ![h] = [code |-> 400, body |-> "none"]]
    /\ pcH' = [pcH EXCEPT ![h] = "unlock"]
    /\ UNCHANGED << state, mu, listenVars, method, req, cmd, sent, errs, st0,
                    toggles, waited >>
    /\ UNCHANGED codecVars

\* ServeHTTP: the body decodes into req, one of the requests of R.
H_Decode(h, R) ==
    /\ pcH[h] = "decode"
    /\ \E rq \in R : req' = [req EXCEPT ![h] = rq]
    /\ pcH' = [pcH EXCEPT ![h] = "power"]
    /\ UNCHANGED << state, mu, listenVars, method, cmd, sent, errs, resp, st0,
                    toggles, waited >>
    /\ UNCHANGED codecVars

WriteOf(field) ==
    CASE field = "power" -> "write_power"
      [] field = "mute" -> "write_mute"
      [] field = "source" -> "write_source"

\* One of handlePower / handleMute / handleSource up to its return statement;
\* r is its outcome, field its name, next the position after its return.
DispatchSkipRestOnError(h, r, field, next) ==
    /\ state' = r.st
    /\ IF r.act = "send"
       THEN /\ cmd' = [cmd EXCEPT ![h] = r.c]
            /\ pcH' = [pcH EXCEPT ![h] = WriteOf(field)]
            /\ errs' = errs
       ELSE /\ cmd' = cmd
            /\ pcH' = [pcH EXCEPT ![h] = IF r.act = "err" THEN "encode" ELSE next]
            /\ errs' = IF r.act = "err"
                       THEN [errs EXCEPT ![h] = Append(@, field)]
                       ELSE errs
    /\ UNCHANGED << mu, listenVars, method, req, sent, resp, st0 >>

Dispatch(h, r, field, next) ==
    /\ state' = r.st
    /\ IF r.act = "send"
       THEN /\ cmd' = [cmd EXCEPT ![h] = r.c]
            /\ pcH' = [pcH EXCEPT ![h] = WriteOf(field)]
            /\ errs' = errs
       ELSE /\ cmd' = cmd
            /\ pcH' = [pcH EXCEPT ![h] = next]
            /\ errs' = IF r.act = "err"
                       THEN [errs EXCEPT ![h] = Append(@, field)]
                       ELSE errs
    /\ UNCHANGED << mu, listenVars, method, req, sent, resp, st0 >>

H_Power(h) ==
    /\ pcH[h] = "power"
    /\ LET r == handlePower(req[h].Power, state)
       IN  /\ Dispatch(h, r, "power", "mute")
           /\ toggles' =
                 IF req[h].Power = "toggle"
                 THEN LastTwo(Append(toggles, [before |-> state.Power, c |-> r.c]))
                 ELSE IF r.act = "send" THEN << >> ELSE toggles
    /\ UNCHANGED waited
    /\ UNCHANGED codecVars

H_MuteGateOnStart(h) ==
    /\ pcH[h] = "mute"
    /\ Dispatch(h, IF st0[h].Power THEN handleMuteUngated(req[h].Mute, state)
                   ELSE ReturnNil(state),
                "mute", "source")
    /\ UNCHANGED << toggles, waited >>
    /\ UNCHANGED codecVars

H_Mute(h) ==
    /\ pcH[h] = "mute"
    /\ Dispatch(h, handleMute(req[h].Mute, state), "mute", "source")
    /\ UNCHANGED << toggles, waited >>
    /\ UNCHANGED codecVars

H_Source(h) ==
    /\ pcH[h] = "source"
    /\ Dispatch(h, handleSource(req[h].Source, state), "source", "encode")
    /\ UNCHANGED << toggles, waited >>
    /\ UNCHANGED codecVars

\* SendCommand: a.port.Write of the command's bytes returns, with or without
\* an error; the handle function returns SendCommand's error to ServeHTTP.
AfterWrite(p) ==
    CASE p = "write_power" -> "mute"
      [] p = "write_mute" -> "source"
      [] p = "write_source" -> "encode"

FieldOfWrite(p) ==
    CASE p = "write_power" -> "power"
      [] p = "write_mute" -> "mute"
      [] p = "write_source" -> "source"

Writing == {"write_power", "write_mute", "write_source"}

H_Write(h) ==
    /\ pcH[h] \in Writing
    /\ \E ok \in BOOLEAN :
          /\ sent' = [sent EXCEPT ![h] =
                         Append(@, [bytes |-> SendCommandBytes(cmd[h]), ok |-> ok])]
          /\ errs' = IF ok THEN errs
                     ELSE [errs EXCEPT ![h] = Append(@, FieldOfWrite(pcH[h]))]
    /\ cmd' = [cmd EXCEPT ![h] = NoCommand]
    /\ pcH' = [pcH EXCEPT ![h] = AfterWrite(pcH[h])]
    /\ UNCHANGED << state, mu, listenVars, method, req, resp, st0, toggles, waited >>
    /\ UNCHANGED codecVars

\* ServeHTTP: json.NewEncoder(w).Encode(a.state)
H_Encode(h) ==
    /\ pcH[h] = "encode"
    /\ resp' = [resp EXCEPT ![h] = [code |-> Status(errs[h]), body |-> state]]
    /\ pcH' = [pcH EXCEPT ![h] = "unlock"]
    /\ UNCHANGED << state, mu, listenVars, method, req, cmd, sent, errs, st0,
                    toggles, waited >>
    /\ UNCHANGED codecVars

\* ServeHTTP returns: the deferred a.mu.Unlock(); the goroutine ends.
H_Unlock(h) ==
    /\ pcH[h] = "unlock"
    /\ mu' = NoOwner
    /\ pcH' = [pcH EXCEPT ![h] = "idle"]
    /\ method' = [method EXCEPT ![h] = "GET"]
    /\ req' = [req EXCEPT ![h] = NoRequest]
    /\ sent' = [sent EXCEPT ![h] = << >>]
    /\ errs' = [errs EXCEPT ![h] = << >>]
    /\ resp' = [resp EXCEPT ![h] = NoResponse]
    /\ st0' = [st0 EXCEPT ![h] = ZeroState]
    /\ waited' = [waited EXCEPT ![h] = FALSE]
    /\ UNCHANGED << state, listenVars, cmd, toggles >>
    /\ UNCHANGED codecVars

-----------------------------------------------------------------------------
(* The variant with the /source endpoint (src/unnamed/part_000): its
   dispatchers keep no state and have no power gate; the record fields
   Power and Mute stand for its Powered and Muted. *)

\* SendCommand of the variant: "#GG,NN" then ",DATA\r" or "\r".
V_SendCommandBytes(c) ==
    (<<"#">> \o c.Group \o <<",">> \o c.Number)
        \o (IF c.Data # << >> THEN <<",">> \o c.Data \o <<CR>> ELSE <<CR>>)

V_handlePower(s, st) ==
    CASE s = "on" -> Send(SetPowerOn, st)
      [] s = "off" -> Send(SetPowerStandby, st)
      [] s = "toggle" ->
            IF st.Power THEN Send(SetPowerStandby, st) ELSE Send(SetPowerOn, st)
      [] s = "" -> ReturnNil(st)
      [] OTHER -> ReturnError(st)

V_handleMute(s, st) ==
    CASE s \in {"on", "muted"} -> Send(SetMuteOn, st)
      [] s \in {"off", "unmuted"} -> Send(SetMuteOff, st)
      [] s = "" -> ReturnNil(st)
      [] OTHER -> ReturnError(st)

V_handleSource(s, st) ==
    IF s \in SourceNames THEN Send(SourceCommand(s), st)
    ELSE IF s = "" THEN ReturnNil(st)
    ELSE ReturnError(st)

V_WriteOf(field) ==
    CASE field = "power" -> "v_write_power"
      [] field = "mute" -> "v_write_mute"
      [] field = "source" -> "v_write_source"

\* One 'if err := a.handleX(...); err != nil { http.Error(...) }' of the
\* variant's ServeHTTP, up to the write inside SendCommand.
V_Dispatch(h, r, field, next) ==
    /\ IF r.act = "send"
       THEN /\ cmd' = [cmd EXCEPT ![h] = r.c]
            /\ pcH' = [pcH EXCEPT ![h] = V_WriteOf(field)]
            /\ errs' = errs
       ELSE /\ cmd' = cmd
            /\ pcH' = [pcH EXCEPT ![h] = next]
            /\ errs' = IF r.act = "err"
                       THEN [errs EXCEPT ![h] = Append(@, field)]
                       ELSE errs
    /\ UNCHANGED << state, mu, listenVars, method, req, sent, resp, st0,
                    toggles, waited >>
    /\ UNCHANGED codecVars

\* A request for /status arrives.
V_Request(h) ==
    /\ pcH[h] = "idle"
    /\ \E m \in {"GET", "POST"} : method' = [method EXCEPT ![h] = m]
    /\ pcH' = [pcH EXCEPT ![h] = "v_lock"]
    /\ UNCHANGED << state, mu, listenVars, req, cmd, sent, errs, resp, st0,
                    toggles, waited >>
    /\ UNCHANGED codecVars

\* ServeHTTP: a.mu.Lock(), the unlock deferred to the return.
V_Lock(h) ==
    /\ pcH[h] = "v_lock"
    /\ mu = NoOwner
    /\ mu' = Handler(h)
    /\ st0' = [st0 EXCEPT ![h] = state]
    /\ pcH' = [pcH EXCEPT ![h] =
                  IF method[h] = "POST" THEN "v_decode" ELSE "v_encode"]
    /\ UNCHANGED << state, listenVars, method, req, cmd, sent, errs, resp,
                    toggles, waited >>
    /\ UNCHANGED codecVars

\* ServeHTTP: the body does not decode: 400 and return.
V_DecodeError(h) ==
    /\ pcH[h] = "v_decode"
    /\ resp' = [resp EXCEPT ![h] = [code |-> 400, body |-> "none"]]
    /\ pcH' = [pcH EXCEPT ![h] = "v_unlock"]
    /\ UNCHANGED << state, mu, listenVars, method, req, cmd, sent, errs, st0,
                    toggles, waited >>
    /\ UNCHANGED codecVars

V_Decode(h, R) ==
    /\ pcH[h] = "v_decode"
    /\ \E rq \in R : req' = [req EXCEPT ![h] = rq]
    /\ pcH' = [pcH EXCEPT ![h] = "v_power"]
    /\ UNCHANGED << state, mu, listenVars, method, cmd, sent, errs, resp, st0,
                    toggles, waited >>
    /\ UNCHANGED codecVars

\* ServeHTTP: a.handlePower(req.Power)
V_Power(h) ==
    /\ pcH[h] = "v_power"
    /\ V_Dispatch(h, V_handlePower(req[h].Power, state), "power", "v_mute")

\* ServeHTTP: a.handleMute(req.Mute)
V_Mute(h) ==
    /\ pcH[h] = "v_mute"
    /\ V_Dispatch(h, V_handleMute(req[h].Mute, state), "mute", "v_source")

\* ServeHTTP: a.handleSource(req.Mute)
V_Source(h) ==
    /\ pcH[h] = "v_source"
    /\ V_Dispatch(h, V_handleSource(req[h].Mute, state), "source", "v_encode")

V_AfterWrite(p) ==
    CASE p = "v_write_power" -> "v_mute"
      [] p = "v_write_mute" -> "v_source"
      [] p = "v_write_source" -> "v_encode"

V_FieldOfWrite(p) ==
    CASE p = "v_write_power" -> "power"
      [] p = "v_write_mute" -> "mute"
      [] p = "v_write_source" -> "source"

\* SendCommand: a.port.Write, which the transport takes or fails.
V_Write(h) ==
    /\ pcH[h] \in {"v_write_power", "v_write_mute", "v_write_source"}
    /\ \E ok \in BOOLEAN :
          /\ sent' = [sent EXCEPT ![h] =
                         Append(@, [bytes |-> V_SendCommandBytes(cmd[h]),
                                    ok |-> ok])]
          /\ errs' = IF ok THEN errs
                     ELSE [errs EXCEPT ![h] = Append(@, V_FieldOfWrite(pcH[h]))]
    /\ cmd' = [cmd EXCEPT ![h] = NoCommand]
    /\ pcH' = [pcH EXCEPT ![h] = V_AfterWrite(pcH[h])]
    /\ UNCHANGED << state, mu, listenVars, method, req, resp, st0, toggles, waited >>
    /\ UNCHANGED codecVars

\* ServeHTTP: json.NewEncoder(w).Encode(a.state)
V_Encode(h) ==
    /\ pcH[h] = "v_encode"
    /\ resp' = [resp EXCEPT ![h] = [code |-> Status(errs[h]), body |-> state]]
    /\ pcH' = [pcH EXCEPT ![h] = "v_unlock"]
    /\ UNCHANGED << state, mu, listenVars, method, req, cmd, sent, errs, st0,
                    toggles, waited >>
    /\ UNCHANGED codecVars

\* A request for /source arrives.
S_Request(h) ==
    /\ pcH[h] = "idle"
    /\ method' = [method EXCEPT ![h] = "POST"]
    /\ pcH' = [pcH EXCEPT ![h] = "s_lock"]
    /\ UNCHANGED << state, mu, listenVars, req, cmd, sent, errs, resp, st0,
                    toggles, waited >>
    /\ UNCHANGED codecVars

\* HTTPSource: a.mu.Lock(), the unlock deferred to the return.
S_Lock(h) ==
    /\ pcH[h] = "s_lock"
    /\ mu = NoOwner
    /\ mu' = Handler(h)
    /\ st0' = [st0 EXCEPT ![h] = state]
    /\ pcH' = [pcH EXCEPT ![h] = "s_decode"]
    /\ UNCHANGED << state, listenVars, method, req, cmd, sent, errs, resp,
                    toggles, waited >>
    /\ UNCHANGED codecVars

\* HTTPSource: the body does not decode: 400 and return.
S_DecodeError(h) ==
    /\ pcH[h] = "s_decode"
    /\ resp' = [resp EXCEPT ![h] = [code |-> 400, body |-> "none"]]
    /\ pcH' = [pcH EXCEPT ![h] = "s_unlock"]
    /\ UNCHANGED << state, mu, listenVars, method, req, cmd, sent, errs, st0,
                    toggles, waited >>
    /\ UNCHANGED codecVars

S_Decode(h, S) ==
    /\ pcH[h] = "s_decode"
    /\ \E src \in S : req' = [req EXCEPT ![h] = [NoRequest EXCEPT !.Source = src]]
    /\ pcH' = [pcH EXCEPT ![h] = "s_switch"]
    /\ UNCHANGED << state, mu, listenVars, method, cmd, sent, errs, resp, st0,
                    toggles, waited >>
    /\ UNCHANGED codecVars

\* HTTPSource: the switch on req.Source; its default branch answers 400 and
\* falls out of the switch with c still the zero Command.
S_Switch(h) ==
    /\ pcH[h] = "s_switch"
    /\ IF req[h].Source \in SourceNames
       THEN /\ cmd' = [cmd EXCEPT ![h] = SourceCommand(req[h].Source)]
            /\ resp' = resp
            /\ errs' = errs
       ELSE /\ cmd' = [cmd EXCEPT ![h] = NoCommand]
            /\ resp' = [resp EXCEPT ![h] = [code |-> 400, body |-> "none"]]
            /\ errs' = [errs EXCEPT ![h] = Append(@, "source")]
    /\ pcH' = [pcH EXCEPT ![h] = "s_write"]
    /\ UNCHANGED << state, mu, listenVars, method, req, sent, st0, toggles, waited >>
    /\ UNCHANGED codecVars

\* HTTPSource: err = a.SendCommand(c), 500 when the write fails; a status
\* already written stays, none written means 200.
S_Write(h) ==
    /\ pcH[h] = "s_write"
    /\ \E ok \in BOOLEAN :
          /\ sent' = [sent EXCEPT ![h] =
                         Append(@, [bytes |-> V_SendCommandBytes(cmd[h]),
                                    ok |-> ok])]
          /\ errs' = IF ok THEN errs ELSE [errs EXCEPT ![h] = Append(@, "write")]
          /\ resp' = IF resp[h].code # 0 THEN resp
                     ELSE [resp EXCEPT ![h] =
                              [code |-> IF ok THEN 200 ELSE 500, body |-> "none"]]
    /\ cmd' = [cmd EXCEPT ![h] = NoCommand]
    /\ pcH' = [pcH EXCEPT ![h] = "s_unlock"]
    /\ UNCHANGED << state, mu, listenVars, method, req, st0, toggles, waited >>
    /\ UNCHANGED codecVars

\* ServeHTTP or HTTPSource returns: the deferred a.mu.Unlock().
V_Unlock(h) ==
    /\ pcH[h] \in {"v_unlock", "s_unlock"}
    /\ mu' = NoOwner
    /\ pcH' = [pcH EXCEPT ![h] = "idle"]
    /\ method' = [method EXCEPT ![h] = "GET"]
    /\ req' = [req EXCEPT ![h] = NoRequest]
    /\ sent' = [sent EXCEPT ![h] = << >>]
    /\ errs' = [errs EXCEPT ![h] = << >>]
    /\ resp' = [resp EXCEPT ![h] = NoResponse]
    /\ st0' = [st0 EXCEPT ![h] = ZeroState]
    /\ UNCHANGED << state, listenVars, cmd, toggles, waited >>
    /\ UNCHANGED codecVars

-----------------------------------------------------------------------------
(* What the device puts on the wire *)

\* A frame #GG,NN[,DATA]\r ; Data is << >> when HasData is FALSE.
Frame(g, n, has, d) == [Group |-> g, Number |-> n, HasData |-> has, Data |-> d]

FrameBytes(f) ==
    <<"#">> \o f.Group \o <<",">> \o f.Number \o
        (IF f.HasData THEN <<",">> \o f.Data ELSE << >>) \o <<CR>>

RECURSIVE Flatten(_)
Flatten(q) == IF q = << >> THEN << >> ELSE Head(q) \o Flatten(Tail(q))

SeqsUpTo(S, n) == UNION { [1 .. k -> S] : k \in 0 .. n }

FramesOf(G, N, D) ==
    { Frame(g, n, TRUE, d) : g \in G, n \in N, d \in D }
        \cup { Frame(g, n, FALSE, << >>) : g \in G, n \in N }

\* Bytes that are no whole frame: a byte of noise, a lone terminator, and
\* the two halves of frames cut by the end of a read.
NoiseChunks ==
    { <<"x">>, <<CR>>,
      <<"#", "0", "2", ",", "0", "3", ",", "1">>,
      <<",", "1", CR>> }

\* Reads of the whole system: the replies that drive the state machine.
SysFrames ==
    { Frame(<<"0", "2">>, <<"0", "1">>, TRUE, <<"0">>),
      Frame(<<"0", "2">>, <<"0", "1">>, TRUE, <<"1">>),
      Frame(<<"0", "2">>, <<"0", "3">>, TRUE, <<"1">>) }

SysBuffers ==
    { Flatten([k \in 1 .. Len(q) |-> FrameBytes(q[k])]) :
         q \in SeqsUpTo(SysFrames, MaxSysFrames) }
        \cup { <<"x">> }

\* Reads of the ingestion loop alone: every reply that UpdateState tells
\* apart, some it ignores, with and without data.
ListenFrames ==
    FramesOf({<<"0", "2">>}, {<<"0", "1">>, <<"0", "3">>},
             {<< >>, <<"0">>, <<"1">>, <<"2">>})
        \cup FramesOf({<<"0", "4">>}, {<<"0", "1">>},
                      { <<"0", "0">>, <<"0", "1">>, <<"0", "2">>, <<"0", "3">>,
                        <<"0", "4">>, <<"0", "5">>, <<"0", "6">>, <<"1", "0">>,
                        <<"1", "4">>, <<"1", "6">>, <<"2", "0">>, <<"9", "9">> })
        \cup { Frame(<<"0", "0">>, <<"0", "2">>, TRUE, <<"1">>),
               Frame(<<"0", "4">>, <<"0", "2">>, FALSE, << >>) }

ListenBuffers ==
    { Flatten([k \in 1 .. Len(q) |-> FrameBytes(q[k])]) :
         q \in SeqsUpTo(ListenFrames, MaxFrames) }
        \cup NoiseChunks

\* Frames of the codec: data with the bytes the grammar gives a meaning to.
CodecFrames ==
    FramesOf({<<"0", "2">>, <<"1", "0">>}, {<<"0", "1">>},
             { << >>, <<"1">>, <<"1", "4">>, <<"#">>, <<",", "1">>,
               <<"#", "0", "2", ",", "0", "1">>, <<"x", "\n">> })

\* Requests of the whole system.
Request(p, m, s) == [Power |-> p, Mute |-> m, Source |-> s]

SysRequests ==
    { Request("on", "", ""), Request("off", "", ""), Request("toggle", "", ""),
      Request("", "on", ""), Request("", "", "A1"), Request("on", "on", ""),
      Request("off", "on", ""), Request("toggle", "on", "A1") }

\* Requests of one handler alone: every value the dispatchers tell apart,
\* and some they reject.
PowerInputs == {"", "on", "off", "toggle", "ON"}

MuteInputs == {"", "on", "muted", "off", "unmuted", "yes"}

SourceInputs == SourceNames \cup {"", "A9", "usb"}

ServeRequests ==
    { rq \in [Power : PowerInputs, Mute : MuteInputs, Source : SourceInputs] :
         rq.Source \in {"", "A1", "A9"} \/ (rq.Power = "" /\ rq.Mute = "") }

-----------------------------------------------------------------------------
(* Codec alone: the bytes of one read and readUpdate's decoding of them *)

C_Frame ==
    /\ cpc = "build"
    /\ sentCmd = NoCommand
    /\ Len(frames) < MaxFrames
    /\ \E f \in CodecFrames :
          /\ frames' = Append(frames, f)
          /\ response' = response \o FrameBytes(f)
    /\ UNCHANGED << sysVars, noisy, sentCmd, replies, cpc >>
    /\ UNCHANGED wireVars

C_Noise ==
    /\ cpc = "build"
    /\ sentCmd = NoCommand
    /\ noisy < MaxNoise
    /\ \E x \in NoiseChunks : response' = response \o x
    /\ noisy' = noisy + 1
    /\ UNCHANGED << sysVars, frames, sentCmd, replies, cpc >>
    /\ UNCHANGED wireVars

\* The bytes SendCommand writes for a command, read back.
C_Command ==
    /\ cpc = "build"
    /\ response = << >>
    /\ \E c \in Commands :
          /\ sentCmd' = c
          /\ response' = SendCommandBytes(c)
    /\ UNCHANGED << sysVars, frames, noisy, replies, cpc >>
    /\ UNCHANGED wireVars

\* readUpdate from the buffer to the replies it hands to UpdateState.
C_Decode ==
    /\ cpc = "build"
    /\ replies' = RepliesOf(response)
    /\ cpc' = IF replies' = << >> THEN "malformed" ELSE "decoded"
    /\ UNCHANGED << sysVars, frames, noisy, sentCmd, response >>
    /\ UNCHANGED wireVars

\* The next read starts from an empty buffer.
C_NextRead ==
    /\ cpc # "build"
    /\ frames' = << >>
    /\ noisy' = 0
    /\ sentCmd' = NoCommand
    /\ response' = << >>
    /\ replies' = << >>
    /\ cpc' = "build"
    /\ UNCHANGED sysVars
    /\ UNCHANGED wireVars

-----------------------------------------------------------------------------
(* The serial line between the device and port.Read *)

\* The frames the device sends in the specification of the line: replies
\* that change the state, and one whose data holds the text of a frame.
WireFrames ==
    { Frame(<<"0", "2">>, <<"0", "1">>, TRUE, <<"1">>),
      Frame(<<"0", "2">>, <<"0", "3">>, TRUE, <<"1">>),
      Frame(<<"0", "4">>, <<"0", "1">>, TRUE, <<"1", "4">>),
      Frame(<<"1", "0">>, <<"0", "1">>, TRUE, <<"#", "0", "2", ",", "0", "1">>) }

\* The frames still on the line when a read has taken n bytes of fs, skip
\* bytes of whose first frame were taken before, and the bytes now taken
\* of the first of them.
RECURSIVE FramesLeft(_, _, _)
FramesLeft(fs, skip, n) ==
    IF fs = << >> THEN << >>
    ELSE IF n < Len(FrameBytes(Head(fs))) - skip THEN fs
    ELSE FramesLeft(Tail(fs), 0, n - (Len(FrameBytes(Head(fs))) - skip))

RECURSIVE TakenLeft(_, _, _)
TakenLeft(fs, skip, n) ==
    IF fs = << >> THEN 0
    ELSE IF n < Len(FrameBytes(Head(fs))) - skip THEN skip + n
    ELSE TakenLeft(Tail(fs), 0, n - (Len(FrameBytes(Head(fs))) - skip))

\* The device sends a frame.
W_Send ==
    /\ Len(wframes) < MaxWire
    /\ \E f \in WireFrames :
          /\ wframes' = Append(wframes, f)
          /\ wire' = wire \o FrameBytes(f)
    /\ UNCHANGED << sysVars, frames, noisy, sentCmd, response, replies, cpc,
                    taken >>

W_ReadCarryOver ==
    /\ pcL = "read"
    /\ \E n \in 1 .. Len(wire) :
          LET kept == IF taken = 0 THEN << >>
                      ELSE SubSeq(FrameBytes(Head(wframes)), 1, taken)
              rs == RepliesOf(kept \o SubSeq(wire, 1, n))
          IN  /\ wire' = SubSeq(wire, n + 1, Len(wire))
              /\ wframes' = FramesLeft(wframes, taken, n)
              /\ taken' = TakenLeft(wframes, taken, n)
              /\ IF rs = << >>
                 THEN /\ lres' = "malformed"
                      /\ pcL' = ListenOnError
                      /\ matches' = << >>
                      /\ logged' = ""
                 ELSE /\ lres' = "reading"
                      /\ pcL' = "update"
                      /\ matches' = rs
                      /\ logged' = ReplyString(Head(rs))
    /\ UNCHANGED << state, mu, usPre, toggles, waited >>
    /\ UNCHANGED << httpVars, frames, noisy, sentCmd, response, replies, cpc >>

\* port.Read returns the first n bytes of the line, wherever frames end;
\* readUpdate decodes them in a buffer of its own and logs the first reply.
W_Read ==
    /\ pcL = "read"
    /\ \E n \in 1 .. Len(wire) :
          LET rs == RepliesOf(SubSeq(wire, 1, n))
          IN  /\ wire' = SubSeq(wire, n + 1, Len(wire))
              /\ wframes' = FramesLeft(wframes, taken, n)
              /\ taken' = TakenLeft(wframes, taken, n)
              /\ IF rs = << >>
                 THEN /\ lres' = "malformed"
                      /\ pcL' = ListenOnError
                      /\ matches' = << >>
                      /\ logged' = ""
                 ELSE /\ lres' = "reading"
                      /\ pcL' = "update"
                      /\ matches' = rs
                      /\ logged' = ReplyString(Head(rs))
    /\ UNCHANGED << state, mu, usPre, toggles, waited >>
    /\ UNCHANGED << httpVars, frames, noisy, sentCmd, response, replies, cpc >>

-----------------------------------------------------------------------------
(* Specifications *)

InitCodec ==
    /\ frames = << >>
    /\ noisy = 0
    /\ sentCmd = NoCommand
    /\ response = << >>
    /\ replies = << >>
    /\ cpc = "build"
    /\ wire = << >>
    /\ wframes = << >>
    /\ taken = 0

InitListen ==
    /\ pcL = "read"
    /\ matches = << >>
    /\ lres = "none"
    /\ usPre = ZeroState
    /\ logged = ""

InitHTTP ==
    /\ pcH = [h \in Handlers |-> "idle"]
    /\ method = [h \in Handlers |-> "GET"]
    /\ req = [h \in Handlers |-> NoRequest]
    /\ cmd = [h \in Handlers |-> NoCommand]
    /\ sent = [h \in Handlers |-> << >>]
    /\ errs = [h \in Handlers |-> << >>]
    /\ resp = [h \in Handlers |-> NoResponse]
    /\ st0 = [h \in Handlers |-> ZeroState]
    /\ toggles = << >>
    /\ waited = [h \in Handlers |-> FALSE]

\* NewAmplifier: &Amplifier{port: port}, the state zero, the lock free.
Init ==
    /\ state = ZeroState
    /\ mu = NoOwner
    /\ InitListen
    /\ InitHTTP
    /\ InitCodec

\* The whole bridge: go amp.Listen() beside the HTTP server's handlers.
Next ==
    \/ L_ReadError
    \/ L_Read(SysBuffers)
    \/ L_UpdateLock
    \/ L_UpdateSwitch
    \/ L_ResetMute
    \/ L_ResetSource
    \/ L_UpdateUnlock
    \/ \E h \in Handlers : H_Request(h)
    \/ \E h \in Handlers : H_Lock(h)
    \/ \E h \in Handlers : H_DecodeError(h)
    \/ \E h \in Handlers : H_Decode(h, SysRequests)
    \/ \E h \in Handlers : H_Power(h)
    \/ \E h \in Handlers : H_Mute(h)
    \/ \E h \in Handlers : H_Source(h)
    \/ \E h \in Handlers : H_Write(h)
    \/ \E h \in Handlers : H_Encode(h)
    \/ \E h \in Handlers : H_Unlock(h)

Spec == Init /\ [][Next]_vars

\* The ingestion loop alone, over every kind of reply.
NextListen ==
    \/ L_ReadError
    \/ L_Read(ListenBuffers)
    \/ L_UpdateLock
    \/ L_UpdateSwitch
    \/ L_ResetMute
    \/ L_ResetSource
    \/ L_UpdateUnlock

SpecListen == Init /\ [][NextListen]_vars

\* One handler alone, over every kind of request, from any device state the
\* replies can have left.
InitServe ==
    /\ state \in AllStates
    /\ mu = NoOwner
    /\ InitListen
    /\ InitHTTP
    /\ InitCodec

NextServe ==
    \/ H_Request(1)
    \/ H_Lock(1)
    \/ H_DecodeError(1)
    \/ H_Decode(1, ServeRequests)
    \/ H_Power(1)
    \/ H_Mute(1)
    \/ H_Source(1)
    \/ H_Write(1)
    \/ H_Encode(1)
    \/ H_Unlock(1)

SpecServe == InitServe /\ [][NextServe]_vars

\* The variant's two endpoints served by one handler, from any device
\* state.
NextVariant ==
    \/ V_Request(1)
    \/ V_Lock(1)
    \/ V_DecodeError(1)
    \/ V_Decode(1, ServeRequests)
    \/ V_Power(1)
    \/ V_Mute(1)
    \/ V_Source(1)
    \/ V_Write(1)
    \/ V_Encode(1)
    \/ S_Request(1)
    \/ S_Lock(1)
    \/ S_DecodeError(1)
    \/ S_Decode(1, SourceInputs)
    \/ S_Switch(1)
    \/ S_Write(1)
    \/ V_Unlock(1)

SpecVariant == InitServe /\ [][NextVariant]_vars

\* The ingestion loop fed by the serial line, reads ending anywhere.
NextWire ==
    \/ W_Send
    \/ W_Read
    \/ L_ReadError
    \/ L_UpdateLock
    \/ L_UpdateSwitch
    \/ L_ResetMute
    \/ L_ResetSource
    \/ L_UpdateUnlock

SpecWire == Init /\ [][NextWire]_vars

\* The codec alone.
NextCodec == C_Frame \/ C_Noise \/ C_Command \/ C_Decode \/ C_NextRead

SpecCodec == Init /\ [][NextCodec]_vars

-----------------------------------------------------------------------------
(* Properties *)

PoweredOff == [Power |-> FALSE, Mute |-> FALSE, Source |-> ""]

\* A reply (02,01,data) that reports the amplifier off.
IsPowerOffReply(r) == IsPowerReply(r) /\ r.Data # <<"1">>

\* The handler's POST body decoded and every field was dispatched.
Served(h) == pcH[h] = "unlock" /\ method[h] = "POST" /\ resp[h].code # 400

\* C1: whenever nobody is inside a critical section, powered == false
\* implies muted == false and source == "".
C1_PoweredOffImpliesReset ==
    mu = NoOwner => (~state.Power => (~state.Mute /\ state.Source = ""))

\* C2: a GET /status response produced while a power-off reply is being
\* applied is the state before or the state after that application, never
\* the state in between.
C2_NoTornStatus ==
    \A h \in Handlers :
        ( /\ pcH[h] = "unlock"
          /\ method[h] = "GET"
          /\ pcL \in InUpdate
          /\ IsPowerOffReply(Head(matches)) )
        => resp[h].body \in {usPre, PoweredOff}

\* A GET that stood at the lock while a power-off reply was half applied to
\* a powered, muted state has answered with the state after it.
C2_Witness ==
    \E h \in Handlers :
        /\ waited[h]
        /\ pcH[h] = "unlock"
        /\ method[h] = "GET"
        /\ resp[h].body = PoweredOff

\* C3: when UpdateState is about to return from a reply (02,01,data), powered
\* is (data == "1"); if that is false, muted is false and source is "",
\* whatever they were; if it is true, muted and source are as before; the
\* lock was held throughout.
C3_PowerReplyApplied ==
    (pcL = "us_ret" /\ IsPowerReply(Head(matches))) =>
        /\ mu = Listener
        /\ state.Power = (Head(matches).Data = <<"1">>)
        /\ ~state.Power => state = PoweredOff
        /\ state.Power => (state.Mute = usPre.Mute /\ state.Source = usPre.Source)

\* A reply (02,01) with empty data has been applied to a powered, muted
\* state with a source selected.
C3_Witness ==
    /\ pcL = "us_ret"
    /\ IsPowerReply(Head(matches))
    /\ Head(matches).Data = << >>
    /\ usPre.Power /\ usPre.Mute /\ usPre.Source = "Bluetooth"
    /\ state = PoweredOff

\* C4: a buffer made of N valid frames and nothing else decodes into exactly
\* N replies, in buffer order, reply k carrying the group, number and data
\* of frame k.
C4_FramesDecodeInOrder ==
    (cpc # "build" /\ noisy = 0 /\ sentCmd = NoCommand) =>
        replies = [k \in 1 .. Len(frames) |->
                      Reply(frames[k].Group, frames[k].Number, frames[k].Data)]

\* Two frames were decoded, the first with data that itself looks like the
\* start of a frame, the second without data.
C4_Witness ==
    /\ cpc = "decoded"
    /\ noisy = 0
    /\ Len(frames) = 2
    /\ frames[1].Data = <<"#", "0", "2", ",", "0", "1">>
    /\ ~frames[2].HasData
    /\ Len(replies) = 2

\* C5: a read with no complete frame in it makes readUpdate return an error
\* with no reply to apply and the state as it was, and Listen goes on to the
\* next read; Listen never stops.
C5_MalformedReadIsSkipped ==
    /\ [][(pcL = "read" /\ lres' = "malformed" /\ lres # "malformed") =>
             (state' = state /\ matches' = << >> /\ pcL' = "read")]_vars
    /\ [](pcL # "stopped")

\* A read without a frame has been skipped with replies of earlier reads
\* applied, and Listen is at its next read.
C5_Witness ==
    /\ lres = "malformed"
    /\ pcL = "read"
    /\ state.Power /\ state.Mute /\ state.Source = "USB"

\* C6: the bytes SendCommand writes for a command of the command set decode
\* into exactly one reply, with the command's group, number and data.
C6_CommandRoundTrip ==
    (cpc # "build" /\ sentCmd # NoCommand) =>
        replies = << Reply(sentCmd.Group, sentCmd.Number, sentCmd.Data) >>

\* A command without data has been read back as one reply with empty data.
C6_Witness ==
    /\ cpc = "decoded"
    /\ sentCmd = GetPowerState
    /\ replies = << Reply(<<"0", "1">>, <<"0", "1">>, << >>) >>

\* C7: of two successive "toggle" dispatches the second sends the complement
\* of the first; when the first found powered == false they send SetPowerOn
\* and then SetPowerStandby.
C7_ToggleTwice ==
    Len(toggles) = 2 =>
        /\ {toggles[1].c, toggles[2].c} = {SetPowerOn, SetPowerStandby}
        /\ ~toggles[1].before =>
              (toggles[1].c = SetPowerOn /\ toggles[2].c = SetPowerStandby)

\* Two toggles have been dispatched, the first from powered == false.
C7_Witness ==
    /\ Len(toggles) = 2
    /\ ~toggles[1].before
    /\ \E h \in Handlers : pcH[h] = "write_power" /\ cmd[h] = SetPowerStandby

\* The request's only non-empty field is a Source outside the 11 names.
OnlyUnknownSource(rq) ==
    rq.Power = "" /\ rq.Mute = "" /\ rq.Source \notin SourceNames \cup {""}

\* C8 as stated: such a POST ends with a source-field error in every device
\* state, no frame written, the state unchanged and in the response body.
C8_UnknownSourceAlwaysError ==
    \A h \in Handlers :
        (pcH[h] = "unlock" /\ OnlyUnknownSource(req[h])) =>
            /\ errs[h] = <<"source">>
            /\ sent[h] = << >>
            /\ state = st0[h]
            /\ resp[h].body = st0[h]

\* C8 amended: the source-field error is raised exactly when powered is
\* true; with powered false the value is not looked at and there is no
\* error; either way no frame is written, the state is unchanged and the
\* response body carries it.
C8_UnknownSourceErrorWhenPowered ==
    \A h \in Handlers :
        (pcH[h] = "unlock" /\ OnlyUnknownSource(req[h])) =>
            /\ errs[h] = IF st0[h].Power THEN <<"source">> ELSE << >>
            /\ resp[h].code = IF st0[h].Power THEN 500 ELSE 200
            /\ sent[h] = << >>
            /\ state = st0[h]
            /\ resp[h].body = st0[h]

\* {"Source":"A9"} was answered with an error on a powered, muted state.
C8_Witness ==
    \E h \in Handlers :
        /\ pcH[h] = "unlock"
        /\ OnlyUnknownSource(req[h])
        /\ req[h].Source = "A9"
        /\ st0[h].Power /\ st0[h].Mute
        /\ errs[h] = <<"source">>

ValidPower(s) == s \in {"on", "off", "toggle"}

ValidMute(s) == s \in {"on", "muted", "off", "unmuted"}

ValidSource(s) == s \in SourceNames

Count(b) == IF b THEN 1 ELSE 0

\* powered as the request's power field leaves it.
PowerAfter(rq, s) ==
    CASE rq.Power = "on" -> TRUE
      [] rq.Power = "off" -> FALSE
      [] rq.Power = "toggle" -> ~s.Power
      [] OTHER -> s.Power

\* The frames of the commands the field values stand for.
PowerFrame(rq, s) ==
    IF PowerAfter(rq, s)
    THEN <<"#", "0", "1", ",", "0", "2", ",", "1", CR>>
    ELSE <<"#", "0", "1", ",", "0", "2", ",", "0", CR>>

MuteFrame(rq) ==
    IF rq.Mute \in {"on", "muted"}
    THEN <<"#", "0", "1", ",", "0", "4", ",", "1", CR>>
    ELSE <<"#", "0", "1", ",", "0", "4", ",", "0", CR>>

SourceFrame(rq) ==
    <<"#", "0", "3", ",", "0", "4", ",">> \o
        (CHOOSE code \in {<<a, b>> : a \in Digits, b \in Digits} :
            sources(code) = rq.Source) \o <<CR>>

\* C9 as stated: a POST with k valid non-empty fields makes exactly k
\* writes of a frame.
C9_OneFramePerValidField ==
    \A h \in Handlers :
        Served(h) =>
            Len(sent[h]) = Count(ValidPower(req[h].Power))
                             + Count(ValidMute(req[h].Mute))
                             + Count(ValidSource(req[h].Source))

\* C9 amended: the writes of a POST are, in this order, one write of the
\* power command's frame when the power value is valid and non-empty, and,
\* only when powered is true after the power field, one write of the mute
\* command's frame and one of the source command's frame when those values
\* are valid and non-empty; no other write is made.
C9_OneWritePerDispatchedField ==
    \A h \in Handlers :
        Served(h) =>
            LET rq == req[h]
                on == PowerAfter(rq, st0[h])
            IN  [k \in 1 .. Len(sent[h]) |-> sent[h][k].bytes] =
                    (IF ValidPower(rq.Power) THEN << PowerFrame(rq, st0[h]) >>
                     ELSE << >>)
                    \o (IF on /\ ValidMute(rq.Mute) THEN << MuteFrame(rq) >>
                        ELSE << >>)
                    \o (IF on /\ ValidSource(rq.Source) THEN << SourceFrame(rq) >>
                        ELSE << >>)

\* A POST with three valid fields on a powered-off state made three writes.
C9_Witness ==
    \E h \in Handlers :
        /\ Served(h)
        /\ ~st0[h].Power
        /\ req[h] = Request("toggle", "unmuted", "A1")
        /\ Len(sent[h]) = 3
        /\ \A k \in 1 .. 3 : sent[h][k].ok

\* C10: no handler is inside SendCommand's port.Write while it holds the
\* device-state lock.
C10_NoWriteUnderLock ==
    \A h \in Handlers : pcH[h] \in Writing => mu # Handler(h)


\* The bytes of the writes a handler has made, in order.
WrittenBytes(h) == [k \in 1 .. Len(sent[h]) |-> sent[h][k].bytes]

\* The fields whose write the transport failed, in order.
FailedWrites(h) ==
    LET F(k) == IF sent[h][k].bytes[3] = "3" THEN "source"
                ELSE IF sent[h][k].bytes[6] = "2" THEN "power" ELSE "mute"
    IN  [k \in 1 .. Len(sent[h]) |-> IF sent[h][k].ok THEN "" ELSE F(k)]

\* The request's only non-empty field is Mute.
OnlyMute(rq) == rq.Power = "" /\ rq.Source = ""

\* What the mute dispatcher is said to do with a value, as <<frames, errors>>;
\* ok tells whether the transport took the write.
MuteOutcome(v, ok) ==
    CASE v \in {"on", "muted"} ->
            << << <<"#", "0", "1", ",", "0", "4", ",", "1", CR>> >>,
               IF ok THEN << >> ELSE <<"mute">> >>
      [] v \in {"off", "unmuted"} ->
            << << <<"#", "0", "1", ",", "0", "4", ",", "0", CR>> >>,
               IF ok THEN << >> ELSE <<"mute">> >>
      [] v = "" -> << << >>, << >> >>
      [] OTHER -> << << >>, <<"mute">> >>

WriteOk(h) == sent[h] = << >> \/ sent[h][1].ok

\* C11 as stated: in every device state "on"/"muted" send SetMuteOn,
\* "off"/"unmuted" send SetMuteOff, "" does nothing without error, and any
\* other string is an error with nothing sent.
C11_MuteMappingAnyState ==
    \A h \in Handlers :
        (Served(h) /\ OnlyMute(req[h])) =>
            << WrittenBytes(h), errs[h] >> = MuteOutcome(req[h].Mute, WriteOk(h))

\* C11 amended: that mapping holds while powered is true; while powered is
\* false every mute value, valid or not, sends nothing and is no error.
C11_MuteMappingWhenPowered ==
    \A h \in Handlers :
        (Served(h) /\ OnlyMute(req[h])) =>
            << WrittenBytes(h), errs[h] >> =
                IF st0[h].Power
                THEN MuteOutcome(req[h].Mute, WriteOk(h))
                ELSE << << >>, << >> >>

\* {"Mute":"unmuted"} on a powered, muted state has sent SetMuteOff.
C11_Witness ==
    \E h \in Handlers :
        /\ Served(h)
        /\ req[h] = Request("", "unmuted", "")
        /\ st0[h].Power /\ st0[h].Mute
        /\ Len(sent[h]) = 1 /\ sent[h][1].ok
        /\ ~state.Mute

\* C12: when handlePower has returned, "on" has handed SetPowerOn to
\* SendCommand, "off" SetPowerStandby, "toggle" the one that complements
\* powered; "" has sent nothing, changed nothing and raised no error; any
\* other string has raised the power error, sent nothing and changed nothing.
C12_PowerMapping ==
    \A h \in Handlers :
        /\ pcH[h] = "write_power" =>
              /\ ValidPower(req[h].Power)
              /\ sent[h] = << >> /\ errs[h] = << >>
              /\ cmd[h] = CASE req[h].Power = "on" -> SetPowerOn
                            [] req[h].Power = "off" -> SetPowerStandby
                            [] req[h].Power = "toggle" ->
                                  IF st0[h].Power THEN SetPowerStandby
                                  ELSE SetPowerOn
        /\ (pcH[h] = "mute" /\ sent[h] = << >>) =>
              /\ ~ValidPower(req[h].Power)
              /\ state = st0[h]
              /\ errs[h] = IF req[h].Power = "" THEN << >> ELSE <<"power">>
        /\ (pcH[h] = "mute" /\ sent[h] # << >>) =>
              WrittenBytes(h) = << PowerFrame(req[h], st0[h]) >>

\* An unknown power value has been rejected on a powered state.
C12_Witness ==
    \E h \in Handlers :
        /\ pcH[h] = "mute"
        /\ req[h].Power = "ON"
        /\ st0[h].Power
        /\ errs[h] = <<"power">>
        /\ sent[h] = << >>
        /\ state = st0[h]

\* The writes a POST makes when every field is dispatched in the order
\* power, mute, source.
ExpectedWrites(rq, s) ==
    (IF ValidPower(rq.Power) THEN << PowerFrame(rq, s) >> ELSE << >>)
    \o (IF PowerAfter(rq, s) /\ ValidMute(rq.Mute) THEN << MuteFrame(rq) >>
        ELSE << >>)
    \o (IF PowerAfter(rq, s) /\ ValidSource(rq.Source) THEN << SourceFrame(rq) >>
        ELSE << >>)

\* The invalid-value errors a POST raises, by field.
InvalidFields(rq, s) ==
    { f \in {"power", "mute", "source"} :
        \/ f = "power" /\ ~ValidPower(rq.Power) /\ rq.Power # ""
        \/ f = "mute" /\ PowerAfter(rq, s) /\ ~ValidMute(rq.Mute) /\ rq.Mute # ""
        \/ f = "source" /\ PowerAfter(rq, s) /\ ~ValidSource(rq.Source)
              /\ rq.Source # "" }

\* C13: a POST in which a field failed (invalid value or failed write) has
\* still dispatched every field, in the order power, mute, source, and its
\* response carries the 500 and then the status body.
C13_ErrorsDoNotStopDispatch ==
    \A h \in Handlers :
        (Served(h) /\ errs[h] # << >>) =>
            /\ WrittenBytes(h) = ExpectedWrites(req[h], st0[h])
            /\ { errs[h][k] : k \in 1 .. Len(errs[h]) } =
                  InvalidFields(req[h], st0[h])
                      \cup ({ FailedWrites(h)[k] : k \in 1 .. Len(sent[h]) } \ {""})
            /\ resp[h].code = 500
            /\ resp[h].body = state

\* The power write failed and the mute value was invalid; the source was
\* still sent and the body returned.
C13_Witness ==
    \E h \in Handlers :
        /\ Served(h)
        /\ req[h] = Request("on", "yes", "A1")
        /\ ~st0[h].Power
        /\ errs[h] = <<"power", "mute">>
        /\ Len(sent[h]) = 2
        /\ ~sent[h][1].ok /\ sent[h][2].ok
        /\ resp[h].body = [st0[h] EXCEPT !.Power = TRUE, !.Source = "A1"]

\* C18: when every write of a POST failed, the cached state is as it was
\* before the request.
C18_NoCommitOnFailedWrite ==
    \A h \in Handlers :
        ( /\ Served(h)
          /\ sent[h] # << >>
          /\ \A k \in 1 .. Len(sent[h]) : ~sent[h][k].ok )
        => state = st0[h]


\* The reply UpdateState is applying is the current source reply.
IsSourceReply(r) == r.Group = <<"0", "4">> /\ r.Number = <<"0", "1">>

IsMuteReply(r) == r.Group = <<"0", "2">> /\ r.Number = <<"0", "3">>

\* The documented code-to-name pairs of the source mapping.
KnownSources ==
    { << <<"0", "0">>, "A1" >>, << <<"0", "1">>, "A2" >>,
      << <<"0", "2">>, "A3" >>, << <<"0", "3">>, "A4" >>,
      << <<"0", "4">>, "D1" >>, << <<"0", "5">>, "D2" >>,
      << <<"0", "6">>, "D3" >>, << <<"1", "0">>, "MP3" >>,
      << <<"1", "4">>, "Bluetooth" >>, << <<"1", "6">>, "USB" >>,
      << <<"2", "0">>, "A1 Balanced" >> }

\* C14: when UpdateState has applied a reply (04,01,code), source is the
\* name of code for the 11 known codes and "" for every other code, and
\* powered and muted are what they were before the reply.
C14_SourceReplyApplied ==
    (pcL = "us_ret" /\ IsSourceReply(Head(matches))) =>
        /\ \A p \in KnownSources :
              Head(matches).Data = p[1] => state.Source = p[2]
        /\ (\A p \in KnownSources : Head(matches).Data # p[1]) =>
              state.Source = ""
        /\ state.Power = usPre.Power
        /\ state.Mute = usPre.Mute

\* (04,01,"14") has been applied to a powered, muted state on source USB.
C14_Witness ==
    /\ pcL = "us_ret"
    /\ Head(matches) = Reply(<<"0", "4">>, <<"0", "1">>, <<"1", "4">>)
    /\ usPre = [Power |-> TRUE, Mute |-> TRUE, Source |-> "USB"]
    /\ state = [Power |-> TRUE, Mute |-> TRUE, Source |-> "Bluetooth"]

\* What one whole call of UpdateState makes of state s for reply r.
UpdateStateResult(s, r) ==
    LET t == UpdateStateSwitch(s, r)
    IN  IF IsPowerReply(r) /\ ~t.Power
        THEN [t EXCEPT !.Mute = FALSE, !.Source = ""]
        ELSE t

\* C19: the replies of one read are applied head first, one by one, and
\* the next read happens only when none is left; the state is changed by
\* nothing but the one loop applying the head of the current read.
C19_RepliesAppliedInOrder ==
    /\ [](/\ pcL = "read" => matches = << >>
          /\ pcL \in InUpdate \cup {"update"} => matches # << >>
          /\ mu = Listener <=> pcL \in InUpdate
          /\ pcL = "us_ret" => state = UpdateStateResult(usPre, Head(matches)))
    /\ [][/\ matches' # matches =>
              \/ /\ pcL = "read" /\ matches = << >>
                 /\ pcL' = "update"
              \/ /\ pcL = "us_ret"
                 /\ matches' = Tail(matches)
                 /\ state' = UpdateStateResult(usPre, Head(matches))
          /\ state' # state => pcL \in InUpdate /\ matches' = matches]_vars

\* The first reply of a two-reply read has been applied while the second
\* still waits behind it.
C19_Witness ==
    /\ pcL = "us_ret"
    /\ matches = << Reply(<<"0", "2">>, <<"0", "1">>, <<"0">>),
                    Reply(<<"0", "4">>, <<"0", "1">>, <<"1", "4">>) >>
    /\ usPre = [Power |-> TRUE, Mute |-> TRUE, Source |-> "USB"]
    /\ state = ZeroState

\* C20: a reply (02,03,data) has set muted to (data = "1") and nothing
\* else, so on a state powered on by (02,01,"1") the reply (02,03,"1")
\* leaves powered and muted both true; a reply that is none of (02,01),
\* (02,03), (04,01) has left the whole state as it was.
C20_ReplyChangesOnlyItsField ==
    pcL = "us_ret" =>
        LET r == Head(matches)
        IN  /\ IsMuteReply(r) =>
                  state = [usPre EXCEPT !.Mute = (r.Data = <<"1">>)]
            /\ (IsMuteReply(r) /\ r.Data = <<"1">> /\ usPre.Power) =>
                  state.Power /\ state.Mute
            /\ (~IsPowerReply(r) /\ ~IsMuteReply(r) /\ ~IsSourceReply(r)) =>
                  state = usPre

\* (02,03,"1") has been applied to a powered, unmuted state.
C20_Witness ==
    /\ pcL = "us_ret"
    /\ Head(matches) = Reply(<<"0", "2">>, <<"0", "3">>, <<"1">>)
    /\ usPre = [Power |-> TRUE, Mute |-> FALSE, Source |-> "A1"]
    /\ state = [Power |-> TRUE, Mute |-> TRUE, Source |-> "A1"]


\* C15: the text logged for a reply with data is "{description}: {data}",
\* the data being the source name for a reply (04,01,code) and the raw data
\* for every other reply.
C15_StringShowsResolvedSource ==
    (pcL \in InUpdate \cup {"update"} /\ Head(matches).Data # << >>) =>
        logged = ReplyDescription(Head(matches)) \o ": "
                    \o (IF IsSourceReply(Head(matches))
                        THEN sources(Head(matches).Data)
                        ELSE Str(Head(matches).Data))

\* What holds instead: the raw data is shown for every reply.
C15_StringShowsRawData ==
    (pcL \in InUpdate \cup {"update"} /\ Head(matches).Data # << >>) =>
        logged = ReplyDescription(Head(matches)) \o ": "
                    \o Str(Head(matches).Data)

\* (04,01,"14") has been logged with its code, not with "Bluetooth".
C15_RawSourceLogged ==
    /\ pcL = "update"
    /\ Head(matches) = Reply(<<"0", "4">>, <<"0", "1">>, <<"1", "4">>)
    /\ logged = "Current source: 14"


\* C16: a POST /source of the variant whose Source is none of the 11 names
\* is answered with 400 and has written nothing to the transport.
C16_UnknownSourceWritesNothing ==
    \A h \in Handlers :
        (pcH[h] = "s_unlock" /\ ~ValidSource(req[h].Source)) =>
            /\ resp[h].code = 400
            /\ sent[h] = << >>

\* The frames a POST /status of the variant writes when each field goes to
\* its own dispatcher.
V_ExpectedWrites(rq, s) ==
    (IF ValidPower(rq.Power) THEN << PowerFrame(rq, s) >> ELSE << >>)
    \o (IF ValidMute(rq.Mute) THEN << MuteFrame(rq) >> ELSE << >>)
    \o (IF ValidSource(rq.Source) THEN << SourceFrame(rq) >> ELSE << >>)

\* C17: a POST /status of the variant hands each non-empty field to its own
\* dispatcher: the frames written are those of Power, Mute and Source, so
\* {"Source":"A1"} writes SetSourceA1 and {"Mute":"on"} writes only
\* SetMuteOn, with no error when the write is taken.
C17_EachFieldToItsDispatcher ==
    \A h \in Handlers :
        (pcH[h] = "v_unlock" /\ method[h] = "POST" /\ resp[h].code # 400) =>
            /\ WrittenBytes(h) = V_ExpectedWrites(req[h], st0[h])
            /\ ( /\ req[h].Power \in {"", "on", "off", "toggle"}
                 /\ req[h].Mute \in {"", "on", "muted", "off", "unmuted"}
                 /\ req[h].Source \in SourceNames \cup {""}
                 /\ \A k \in 1 .. Len(sent[h]) : sent[h][k].ok )
               => errs[h] = << >>


\* C21: when powered is false at the moment the mute and source fields of a
\* POST are dispatched, they are ignored whatever their values: the only
\* frame written is the power field's, muted and source are as before the
\* request, and neither field has raised an error.
C21_GateIgnoresMuteAndSource ==
    \A h \in Handlers :
        (Served(h) /\ ~PowerAfter(req[h], st0[h])) =>
            /\ WrittenBytes(h) =
                  IF ValidPower(req[h].Power)
                  THEN << PowerFrame(req[h], st0[h]) >> ELSE << >>
            /\ state.Mute = st0[h].Mute
            /\ state.Source = st0[h].Source
            /\ \A k \in 1 .. Len(errs[h]) : errs[h][k] = "power"
            /\ ~state.Power

\* An invalid mute value and a valid source on a powered-off, muted state
\* have been ignored without error.
C21_Witness ==
    \E h \in Handlers :
        /\ Served(h)
        /\ req[h] = Request("", "yes", "A1")
        /\ st0[h] = [Power |-> FALSE, Mute |-> TRUE, Source |-> "USB"]
        /\ state = st0[h]
        /\ sent[h] = << >>
        /\ resp[h].code = 200

\* C23: the power field is dispatched first and the gate of mute and
\* source reads powered as the power field left it: once the handler is
\* past the power field, powered is that value and the power frame, if any,
\* is the first write; a mute or source write is made only with powered
\* true; so from powered-off {Power:"on", Mute:"on"} writes SetPowerOn then
\* SetMuteOn, and from powered-on {Power:"off", Mute:"on"} writes only
\* SetPowerStandby.
C23_GateReadsStateAfterPower ==
    \A h \in Handlers :
        /\ pcH[h] \in {"mute", "write_mute", "source", "write_source",
                       "encode"} =>
              /\ state.Power = PowerAfter(req[h], st0[h])
              /\ ValidPower(req[h].Power) =>
                    /\ sent[h] # << >>
                    /\ sent[h][1].bytes = PowerFrame(req[h], st0[h])
        /\ pcH[h] \in {"write_mute", "write_source"} => state.Power
        /\ (Served(h) /\ req[h] = Request("on", "on", "") /\ ~st0[h].Power) =>
              WrittenBytes(h) =
                 << <<"#", "0", "1", ",", "0", "2", ",", "1", CR>>,
                    <<"#", "0", "1", ",", "0", "4", ",", "1", CR>> >>
        /\ (Served(h) /\ req[h] = Request("off", "on", "") /\ st0[h].Power) =>
              WrittenBytes(h) =
                 << <<"#", "0", "1", ",", "0", "2", ",", "0", CR>> >>

\* From a powered-off state {Power:"on", Mute:"on"} has written SetPowerOn
\* and then SetMuteOn.
C23_Witness ==
    \E h \in Handlers :
        /\ Served(h)
        /\ req[h] = Request("on", "on", "")
        /\ ~st0[h].Power
        /\ Len(sent[h]) = 2
        /\ sent[h][2].bytes = <<"#", "0", "1", ",", "0", "4", ",", "1", CR>>
        /\ state.Power /\ state.Mute


\* The positions of ServeHTTP between taking the lock and releasing it.
InServe ==
    {"decode", "power", "write_power", "mute", "write_mute", "source",
     "write_source", "encode", "unlock"}

\* The state a request's own updates make of the state s it started from.
OwnUpdates(rq, s) ==
    LET on == PowerAfter(rq, s)
    IN  [Power |-> on,
         Mute |-> IF on /\ ValidMute(rq.Mute) THEN rq.Mute \in {"on", "muted"}
                  ELSE s.Mute,
         Source |-> IF on /\ ValidSource(rq.Source) THEN rq.Source ELSE s.Source]

\* C24: while a POST is between its lock and its unlock no reply is being
\* applied and no other handler is inside, and the body it has encoded is
\* the state its own power, mute and source updates make of the state it
\* started from.
C24_PostAtomic ==
    \A h \in Handlers :
        /\ (pcH[h] \in InServe /\ method[h] = "POST") =>
              /\ mu = Handler(h)
              /\ pcL \notin InUpdate
              /\ \A g \in Handlers \ {h} : pcH[g] \notin InServe
        /\ Served(h) =>
              /\ resp[h].body = OwnUpdates(req[h], st0[h])
              /\ state = resp[h].body

\* A power-off reply was read while a POST {Power:"on", Mute:"on"} was
\* being served and still waits at the lock; the body shows the request's
\* own updates only.
C24_Witness ==
    \E h \in Handlers :
        /\ Served(h)
        /\ req[h] = Request("on", "on", "")
        /\ pcL = "update"
        /\ Head(matches) = Reply(<<"0", "2">>, <<"0", "1">>, <<"0">>)
        /\ ~st0[h].Power
        /\ resp[h].body = [Power |-> TRUE, Mute |-> TRUE, Source |-> ""]


\* The replies of the frames that lie whole within a read of n bytes of
\* the frames fs, skip bytes of whose first frame were taken before.
RECURSIVE WholeFrames(_, _, _)
WholeFrames(fs, skip, n) ==
    IF fs = << >> THEN << >>
    ELSE LET rest == Len(FrameBytes(Head(fs))) - skip
         IN  IF n < rest THEN << >>
             ELSE (IF skip = 0
                   THEN << Reply(Head(fs).Group, Head(fs).Number, Head(fs).Data) >>
                   ELSE << >>)
                  \o WholeFrames(Tail(fs), 0, n - rest)

\* A step in which a read takes bytes from the line.
ReadTakes == pcL = "read" /\ Len(wire') < Len(wire)

\* C22 as stated: the replies of a read are those of the frames that lie
\* whole within it; a frame cut by the end of a read is applied by neither
\* read, its bytes and all others outside the whole frames are dropped,
\* and the read itself changes no state.
C22_NoPartialFrameApplied ==
    [][ReadTakes =>
          /\ matches' = WholeFrames(wframes, taken, Len(wire) - Len(wire'))
          /\ state' = state]_vars

\* C22 amended: that holds for a read that does not begin with the rest of
\* a frame whose data holds a "#"; nothing is carried over in any case:
\* the replies of a read are the matches in its own bytes.
C22_NoCarryOver ==
    [][ReadTakes =>
          /\ (taken = 0 \/ \A k \in 1 .. Len(Head(wframes).Data) :
                              Head(wframes).Data[k] # "#")
                => matches' = WholeFrames(wframes, taken, Len(wire) - Len(wire'))
          /\ matches' = RepliesOf(SubSeq(wire, 1, Len(wire) - Len(wire')))
          /\ state' = state]_vars

\* The last read took the rest of a cut frame, the line is empty, and
\* nothing was applied: the state is what earlier whole frames made it.
C22_Witness ==
    /\ pcL = "read"
    /\ lres = "malformed"
    /\ wire = << >>
    /\ taken = 0
    /\ state = [Power |-> TRUE, Mute |-> FALSE, Source |-> "Bluetooth"]

=============================================================================
